---- MODULE Spec2Model ----
(***************************************************************************)
(* HighScore leaderboard API: the persistent store (games, scores), the    *)
(* credential subsystem (security.py), the request validation (schemas.py) *)
(* and the five handlers of routes.py, each as one atomic action that      *)
(* leaves the request it served in req and the response it gave in resp.   *)
(*                                                                         *)
(* Strings that the code inspects character by character (names, metadata  *)
(* keys) are sequences of one-character strings.  An Optional[T] value is  *)
(* a set with no element (None) or one element.  Time is counted in units  *)
(* of 1/Day of a day.                                                      *)
(***************************************************************************)
EXTENDS Integers, Sequences, FiniteSets, TLC

VARIABLES games, scores, now, ticks, req, resp, issued, accepted

vars == <<games, scores, now, ticks, req, resp, issued, accepted>>

-----------------------------------------------------------------------------
(* Bounds of the model *)

MaxGames == 2
MaxScores == 3
MaxTicks == 2
Day == 2

(* Program constants (config.py) *)

max_player_name_length == 50
max_game_name_length == 100
max_description_length == 500
max_score_value == 999999999
max_metadata_size == 10240

-----------------------------------------------------------------------------
(* Optional values and small helpers *)

None == {}
Some(v) == {v}
Val(o) == CHOOSE v \in o : TRUE

Range(s) == {s[i] : i \in 1..Len(s)}

Rep(c, n) == [i \in 1..n |-> c]

SetMax(S) == CHOOSE x \in S : \A y \in S : y <= x
SetMin(S) == CHOOSE x \in S : \A y \in S : x <= y

-----------------------------------------------------------------------------
(* Character classes of Python's re module (str patterns) *)

Word == {"a", "b", "d", "g", "k", "t", "7", "_"}
Space == {" ", "\n"}

GameNameChars == Word \cup Space \cup {"-", ".", ",", "!", "?", "(", ")"}
DescriptionChars == GameNameChars \cup {"\"", "'", ":", ";"}
PlayerNameChars == Word \cup Space \cup {"-", ".", "_", "@"}
MetadataKeyChars == Word \cup {"-", "_"}

(* str.strip(): whitespace removed at both ends *)
RECURSIVE LStrip(_)
LStrip(s) == IF s # <<>> /\ Head(s) \in Space THEN LStrip(Tail(s)) ELSE s

RECURSIVE RStrip(_)
RStrip(s) ==
    IF s # <<>> /\ s[Len(s)] \in Space THEN RStrip(SubSeq(s, 1, Len(s) - 1)) ELSE s

Strip(s) == RStrip(LStrip(s))

(* re.match(r'^[class]+$', v): one or more characters of the class up to the
   end of the string; '$' also matches just before a newline that ends the
   string. *)
ReMatchAll(v, class) ==
    \/ Len(v) >= 1 /\ \A i \in 1..Len(v) : v[i] \in class
    \/ /\ Len(v) >= 2
       /\ v[Len(v)] = "\n"
       /\ \A i \in 1..(Len(v) - 1) : v[i] \in class

-----------------------------------------------------------------------------
(* schemas.py: request validation.  A validator yields Some(value) with the
   value the handler receives, or None when it raises. *)

GameCreate_validate_name(v) ==
    LET w == Strip(v) IN
    IF w = <<>> THEN None
    ELSE IF ~ReMatchAll(w, GameNameChars) THEN None
    ELSE Some(w)

GameCreate_validate_description(o) ==
    IF o = None THEN Some(None)
    ELSE LET w == Strip(Val(o)) IN
         IF w # <<>> /\ ~ReMatchAll(w, DescriptionChars) THEN None
         ELSE Some(Some(w))

(* GameCreate(name, description): the Field constraints on the raw strings,
   then the field validators. *)
GameCreate(name, description) ==
    IF Len(name) < 1 \/ Len(name) > max_game_name_length THEN None
    ELSE IF description # None /\ Len(Val(description)) > max_description_length THEN None
    ELSE IF GameCreate_validate_name(name) = None THEN None
    ELSE IF GameCreate_validate_description(description) = None THEN None
    ELSE Some([name |-> Val(GameCreate_validate_name(name)),
               description |-> Val(GameCreate_validate_description(description))])

ScoreCreate_validate_player_name(v) ==
    LET w == Strip(v) IN
    IF w = <<>> THEN None
    ELSE IF ~ReMatchAll(w, PlayerNameChars) THEN None
    ELSE Some(w)

(* len(json.dumps(v)) for a dict v of string keys and ASCII string values:
   '{' and '}', each item '"key": "value"', items joined by ', '; a newline
   in a key is written as the two characters \n. *)
JsonCharLen(c) == IF c = "\n" THEN 2 ELSE 1

RECURSIVE JsonStrLen(_)
JsonStrLen(s) == IF s = <<>> THEN 0 ELSE JsonCharLen(Head(s)) + JsonStrLen(Tail(s))

RECURSIVE JsonItemsLen(_)
JsonItemsLen(d) ==
    IF d = {} THEN 0
    ELSE LET e == CHOOSE x \in d : TRUE IN
         (JsonStrLen(e.key) + 2) + 2 + (e.vlen + 2) + JsonItemsLen(d \ {e})

JsonDumpsLen(d) ==
    2 + JsonItemsLen(d) + (IF Cardinality(d) > 1 THEN 2 * (Cardinality(d) - 1) ELSE 0)

ScoreCreate_validate_metadata(o) ==
    IF o = None THEN Some(None)
    ELSE IF JsonDumpsLen(Val(o)) > max_metadata_size THEN None
    ELSE IF \E e \in Val(o) : ~ReMatchAll(e.key, MetadataKeyChars) THEN None
    ELSE Some(o)

(* ScoreCreate(player_name, score, game_metadata) *)
ScoreCreate(p) ==
    IF Len(p.player_name) < 1 \/ Len(p.player_name) > max_player_name_length THEN None
    ELSE IF p.score < 0 \/ p.score > max_score_value THEN None
    ELSE IF ScoreCreate_validate_player_name(p.player_name) = None THEN None
    ELSE IF ScoreCreate_validate_metadata(p.game_metadata) = None THEN None
    ELSE Some([player_name |-> Val(ScoreCreate_validate_player_name(p.player_name)),
               score |-> p.score,
               game_metadata |-> Val(ScoreCreate_validate_metadata(p.game_metadata))])

(* Query(10, ge=1, le=100) of get_leaderboard *)
LimitValid(limit) == limit >= 1 /\ limit <= 100

-----------------------------------------------------------------------------
(* security.py: the credential subsystem *)

Keys == {"game_k1", "game_k2"}

(* the key stored as it is, not as its hash *)
hash_api_key_Plain(api_key) == api_key

(* PBKDF2-HMAC-SHA256 with the fixed salt: deterministic, and taken to be
   free of collisions on the keys of the model. *)
hash_api_key(api_key) ==
    CASE api_key = "game_k1" -> "9f3a"
      [] api_key = "game_k2" -> "04c1"
      [] OTHER -> "e2b7"

verify_api_key(plain_key, hashed_key) == hash_api_key(plain_key) = hashed_key

(* the loop returning its first row without verifying the key *)
get_game_by_api_key_Unverified(gs, api_key) ==
    IF gs = <<>> THEN None ELSE Some(gs[1])

(* The first game, in table order, whose stored hash verifies the key. *)
get_game_by_api_key(gs, api_key) ==
    LET hits == {i \in 1..Len(gs) : verify_api_key(api_key, gs[i].api_key_hash)} IN
    IF hits = {} THEN None ELSE Some(gs[SetMin(hits)])

-----------------------------------------------------------------------------
(* models.py: the two tables.  The integer primary key of a new row is one
   more than the greatest id of the table. *)

NextId(table) == IF table = <<>> THEN 1 ELSE SetMax({table[i].id : i \in 1..Len(table)}) + 1

(* the column without unique=True *)
UniqueHashViolated_Never(gs, h) == FALSE

(* api_key_hash is declared unique=True: the insert of a second row with a
   stored hash raises. *)
UniqueHashViolated(gs, h) == \E i \in 1..Len(gs) : gs[i].api_key_hash = h

-----------------------------------------------------------------------------
(* routes.py: the window of a leaderboard request *)

(* the month taken as 31 days *)
get_date_filter_MonthOf31(period, t) ==
    IF period = None \/ period = Some("") THEN None
    ELSE IF period = Some("today") THEN Some(t - (t % Day))
    ELSE IF period = Some("week") THEN Some(t - 7 * Day)
    ELSE IF period = Some("month") THEN Some(t - 31 * Day)
    ELSE IF period = Some("year") THEN Some(t - 365 * Day)
    ELSE None

get_date_filter(period, t) ==
    IF period = None \/ period = Some("") THEN None
    ELSE IF period = Some("today") THEN Some(t - (t % Day))
    ELSE IF period = Some("week") THEN Some(t - 7 * Day)
    ELSE IF period = Some("month") THEN Some(t - 30 * Day)
    ELSE IF period = Some("year") THEN Some(t - 365 * Day)
    ELSE None

(* routes.py: the queries of get_leaderboard, over the rows ss of scores *)

(* filter(game_id == game.id) and, with a window, filter(created_at >= date_filter) *)
LeaderboardScope(ss, game_id, date_filter) ==
    {i \in 1..Len(ss) :
        /\ ss[i].game_id = game_id
        /\ (date_filter # None => ss[i].created_at >= Val(date_filter))}

(* the groups dated by the event of the best score, not by the latest event *)
LeaderboardGroups_DateOfBest(ss, game_id, date_filter) ==
    LET scope == LeaderboardScope(ss, game_id, date_filter)
        of(p) == {j \in scope : ss[j].player_name = p}
        best(p) == SetMax({ss[i].score : i \in of(p)})
    IN {[player_name |-> p,
         best_score |-> best(p),
         latest_date |-> SetMax({ss[i].created_at : i \in {j \in of(p) : ss[j].score = best(p)}})]
           : p \in {ss[i].player_name : i \in scope}}

(* group_by(player_name) with max(score) and max(created_at) *)
LeaderboardGroups(ss, game_id, date_filter) ==
    LET scope == LeaderboardScope(ss, game_id, date_filter) IN
    {[player_name |-> p,
      best_score |-> SetMax({ss[i].score : i \in {j \in scope : ss[j].player_name = p}}),
      latest_date |-> SetMax({ss[i].created_at : i \in {j \in scope : ss[j].player_name = p}})]
        : p \in {ss[i].player_name : i \in scope}}

(* the groups ordered by best score ascending *)
OrderByBestScoreDesc_Ascending(groups) ==
    {f \in [1..Cardinality(groups) -> groups] :
        /\ \A i, j \in 1..Cardinality(groups) : i # j => f[i] # f[j]
        /\ \A i, j \in 1..Cardinality(groups) : i < j => f[i].best_score <= f[j].best_score}

(* order_by(desc('best_score')): every order of the groups in which the best
   scores do not increase; the store is free to put equal scores either way. *)
OrderByBestScoreDesc(groups) ==
    {f \in [1..Cardinality(groups) -> groups] :
        /\ \A i, j \in 1..Cardinality(groups) : i # j => f[i] # f[j]
        /\ \A i, j \in 1..Cardinality(groups) : i < j => f[i].best_score >= f[j].best_score}

(* the last limit rows kept, not the first *)
Limit_Tail(rows, limit) ==
    SubSeq(rows, IF Len(rows) < limit THEN 1 ELSE Len(rows) - limit + 1, Len(rows))

Limit(rows, limit) == SubSeq(rows, 1, IF Len(rows) < limit THEN Len(rows) ELSE limit)

(* query.all(): the result lists the store may return *)
LeaderboardResults(ss, game_id, date_filter, limit) ==
    {Limit(f, limit) : f \in OrderByBestScoreDesc(LeaderboardGroups(ss, game_id, date_filter))}

(* entries with rank = idx + 1 *)
LeaderboardEntries(results) ==
    [idx \in 1..Len(results) |->
        [rank |-> idx,
         player_name |-> results[idx].player_name,
         score |-> results[idx].best_score,
         created_at |-> results[idx].latest_date]]

(* the count without the window filter *)
LeaderboardTotal_AllTime(ss, game_id, date_filter) ==
    Cardinality({ss[i].player_name : i \in LeaderboardScope(ss, game_id, None)})

(* count(distinct(player_name)) under the same filters *)
LeaderboardTotal(ss, game_id, date_filter) ==
    Cardinality({ss[i].player_name : i \in LeaderboardScope(ss, game_id, date_filter)})

-----------------------------------------------------------------------------
(* routes.py: the queries and the arithmetic of get_player_stats *)

(* the query without its game_id filter *)
PlayerScores_AnyGame(ss, game_id, player_name) ==
    SelectSeq(ss, LAMBDA s : s.player_name = player_name)

(* filter(game_id == game.id, player_name == player_name).all(), in id order *)
PlayerScores(ss, game_id, player_name) ==
    SelectSeq(ss, LAMBDA s : s.game_id = game_id /\ s.player_name = player_name)

(* sum(scores) / len(scores): Python's integers are unbounded, so the sum is
   never formed here; the quotient is held as its integer part and the
   remainder of the division by n = len(scores). *)
RECURSIVE SumQuotients(_, _)
SumQuotients(vals, n) ==
    IF vals = <<>> THEN 0 ELSE (Head(vals) \div n) + SumQuotients(Tail(vals), n)

RECURSIVE SumRemainders(_, _)
SumRemainders(vals, n) ==
    IF vals = <<>> THEN 0 ELSE (Head(vals) % n) + SumRemainders(Tail(vals), n)

MeanUnits(vals) == SumQuotients(vals, Len(vals)) + (SumRemainders(vals, Len(vals)) \div Len(vals))
MeanRemainder(vals) == SumRemainders(vals, Len(vals)) % Len(vals)

(* the average cut, not rounded, to two decimal places *)
RoundedAverage_Truncated(vals) ==
    [units |-> MeanUnits(vals),
     hundredths |-> (100 * MeanRemainder(vals)) \div Len(vals)]

(* round(average_score, 2): the nearest hundredth, a tie going to the even
   one (a tie needs a number of scores that is a multiple of 8).  The value
   is held as units and hundredths. *)
RoundedAverage(vals) ==
    LET n == Len(vals)
        a == (100 * MeanRemainder(vals)) \div n
        b == (100 * MeanRemainder(vals)) % n
        h == IF 2 * b < n THEN a
             ELSE IF 2 * b > n THEN a + 1
             ELSE IF a % 2 = 0 THEN a ELSE a + 1
    IN IF h = 100 THEN [units |-> MeanUnits(vals) + 1, hundredths |-> 0]
       ELSE [units |-> MeanUnits(vals), hundredths |-> h]

(* the count of the players scoring at least best_score, not above it *)
BetterPlayers_AtLeast(ss, game_id, player_name, best_score) ==
    Cardinality({ss[i].player_name : i \in {j \in 1..Len(ss) :
        /\ ss[j].game_id = game_id
        /\ ss[j].player_name # player_name
        /\ ss[j].score >= best_score}})

(* the count without its game_id filter *)
BetterPlayers_AllGames(ss, game_id, player_name, best_score) ==
    Cardinality({ss[i].player_name : i \in {j \in 1..Len(ss) :
        /\ ss[j].player_name # player_name
        /\ ss[j].score > best_score}})

(* the count without distinct(): rows, not players *)
BetterPlayers_CountRows(ss, game_id, player_name, best_score) ==
    Cardinality({j \in 1..Len(ss) :
        /\ ss[j].game_id = game_id
        /\ ss[j].player_name # player_name
        /\ ss[j].score > best_score})

(* count(distinct(player_name)) over game_id == game.id, player_name !=
   player_name, score > best_score *)
BetterPlayers(ss, game_id, player_name, best_score) ==
    Cardinality({ss[i].player_name : i \in {j \in 1..Len(ss) :
        /\ ss[j].game_id = game_id
        /\ ss[j].player_name # player_name
        /\ ss[j].score > best_score}})

PlayerStats(ss, game_id, player_name) ==
    LET player_scores == PlayerScores(ss, game_id, player_name)
        vals == [i \in 1..Len(player_scores) |-> player_scores[i].score]
        dates == {player_scores[i].created_at : i \in 1..Len(player_scores)}
        best_score == SetMax(Range(vals))
    IN [player_name |-> player_name,
        game_id |-> game_id,
        total_scores |-> Len(player_scores),
        best_score |-> best_score,
        average_score |-> RoundedAverage(vals),
        worst_score |-> SetMin(Range(vals)),
        rank |-> BetterPlayers(ss, game_id, player_name, best_score) + 1,
        first_played |-> SetMin(dates),
        last_played |-> SetMax(dates)]

-----------------------------------------------------------------------------------------------------------------------------------------------------
(* The inputs the requests are drawn from *)

GameNameInputs == {<<"g">>, <<"g", "@">>}
DescriptionInputs == {None, Some(<<"d", "#">>)}

(* the keys generate_api_key() may draw, and the keys a caller may present *)
PresentedKeys == Keys \cup {"forged"}

LongName == Rep("a", max_player_name_length + 1)

(* one short item; one item that exceeds the size limit by a character; keys
   with '!' and with a newline at the end *)
SmallMetadata == {[key |-> <<"t">>, vlen |-> 1]}
BigMetadata == {[key |-> <<"t">>, vlen |-> max_metadata_size - 8]}
BangKeyMetadata == {[key |-> <<"k", "!">>, vlen |-> 1]}
NewlineKeyMetadata == {[key |-> <<"k", "\n">>, vlen |-> 1]}

Payload(n, v, m) == [player_name |-> n, score |-> v, game_metadata |-> m]

PlainPayloads ==
    {Payload(n, v, None) : n \in {<<"a">>, <<"b">>}, v \in {1, max_score_value}}

BadNamePayloads ==
    {Payload(n, 1, None) : n \in {<<" ">>, <<>>, <<"a", "!">>, LongName}}

BadScorePayloads == {Payload(<<"a">>, v, None) : v \in {-1, max_score_value + 1}}

(* a name that the validator trims to "a" *)
PaddedNamePayloads == {Payload(<<" ", "a", "\n">>, 1, None)}

MetadataPayloads ==
    {Payload(<<"a">>, 1, Some(m)) :
        m \in {SmallMetadata, BigMetadata, BangKeyMetadata, NewlineKeyMetadata}}

ScorePayloads ==
    PlainPayloads \cup PaddedNamePayloads \cup BadNamePayloads \cup BadScorePayloads
    \cup MetadataPayloads

LimitInputs == {0, 1, 100, 101}
PeriodInputs == {None, Some("today"), Some("week"), Some("month"), Some("year"),
                 Some("decade")}

(* the path parameter of the stats request is any string *)
StatsNameInputs == {<<"a">>, <<"b">>, <<" ", "a", "\n">>, <<"a", "!">>}

TickInputs == {1, 7 * Day}

-----
(* Responses *)

Response(status, body) == [status |-> status, body |-> body]

ValidationError == Response(422, [detail |-> "validation error"])
Unauthorized == Response(401, [detail |-> "Invalid API key"])
NotFound(player_name) == Response(404, [detail |-> <<"Player not found", player_name>>])
(* main.py: the handler of uncaught exceptions *)
InternalError == Response(500, [detail |-> "An internal error occurred. Please try again later.",
                                type |-> "internal_error"])

-----------------------------------------------------------------------------
(* State *)

NoRequest == [op |-> "none"]
NoResponse == Response(0, [detail |-> "none"])

(* no request is being served *)
Idle == req = NoRequest

Init ==
    /\ games = <<>>
    /\ scores = <<>>
    /\ now = 0
    /\ ticks = 0
    /\ req = NoRequest
    /\ resp = NoResponse
    /\ issued = {}
    /\ accepted = <<>>

(* POST /games.  api_key is the key generate_api_key() draws; db_fails says
   whether the commit raises for a reason of the store's own. *)
create_game(name, description, api_key, db_fails) ==
    /\ Idle
    /\ Len(games) < MaxGames
    /\ req' = [op |-> "create_game", name |-> name, description |-> description, at |-> now]
    /\ LET game == GameCreate(name, description) IN
       IF game = None
       THEN /\ resp' = ValidationError
            /\ UNCHANGED <<games, issued>>
       ELSE LET api_key_hash == hash_api_key(api_key)
                db_game == [id |-> NextId(games),
                            name |-> Val(game).name,
                            description |-> Val(game).description,
                            api_key_hash |-> api_key_hash,
                            created_at |-> now]
            IN IF db_fails \/ UniqueHashViolated(games, api_key_hash)
               THEN /\ resp' = Response(500,
                                  [detail |-> <<"Failed to create game: ",
                                                IF db_fails THEN "OperationalError"
                                                ELSE "IntegrityError">>])
                    /\ UNCHANGED <<games, issued>>
               ELSE /\ games' = Append(games, db_game)
                    /\ resp' = Response(201, [id |-> db_game.id,
                                              name |-> db_game.name,
                                              description |-> db_game.description,
                                              api_key |-> api_key,
                                              created_at |-> db_game.created_at])
                    /\ issued' = issued \cup {<<api_key, db_game.id>>}
    /\ UNCHANGED <<scores, now, ticks, accepted>>

(* the game-info request that replaces the stored hash of the game it
   resolved *)
get_current_game_Rotating(api_key) ==
    /\ Idle
    /\ req' = [op |-> "get_current_game", api_key |-> api_key, at |-> now]
    /\ LET game == get_game_by_api_key(games, api_key) IN
       IF game = None
       THEN /\ resp' = Unauthorized
            /\ UNCHANGED games
       ELSE /\ resp' = Response(200, [id |-> Val(game).id,
                                      name |-> Val(game).name,
                                      description |-> Val(game).description,
                                      created_at |-> Val(game).created_at])
            /\ games' = [i \in 1..Len(games) |->
                            IF games[i].id = Val(game).id
                            THEN [games[i] EXCEPT !.api_key_hash = hash_api_key("rotated")]
                            ELSE games[i]]
    /\ UNCHANGED <<scores, now, ticks, issued, accepted>>

(* GET /games/me *)
get_current_game(api_key) ==
    /\ Idle
    /\ req' = [op |-> "get_current_game", api_key |-> api_key, at |-> now]
    /\ LET game == get_game_by_api_key(games, api_key) IN
       IF game = None
       THEN resp' = Unauthorized
       ELSE resp' = Response(200, [id |-> Val(game).id,
                                   name |-> Val(game).name,
                                   description |-> Val(game).description,
                                   created_at |-> Val(game).created_at])
    /\ UNCHANGED <<games, scores, now, ticks, issued, accepted>>

(* the submission whose row is stored although the commit raised *)
submit_score_WriteKept(payload, api_key, db_fails) ==
    /\ Idle
    /\ Len(scores) < MaxScores
    /\ req' = [op |-> "submit_score", payload |-> payload, api_key |-> api_key, at |-> now]
    /\ LET score_data == ScoreCreate(payload)
           game == get_game_by_api_key(games, api_key)
       IN IF score_data = None
          THEN /\ resp' = ValidationError
               /\ UNCHANGED <<scores, accepted>>
          ELSE IF game = None
          THEN /\ resp' = Unauthorized
               /\ UNCHANGED <<scores, accepted>>
          ELSE LET db_score == [id |-> NextId(scores),
                                game_id |-> Val(game).id,
                                player_name |-> Val(score_data).player_name,
                                score |-> Val(score_data).score,
                                game_metadata |-> Val(score_data).game_metadata,
                                created_at |-> now]
               IN /\ scores' = Append(scores, db_score)
                  /\ IF db_fails
                     THEN /\ resp' = InternalError
                          /\ UNCHANGED accepted
                     ELSE /\ resp' = Response(201, db_score)
                          /\ accepted' = Append(accepted, [api_key |-> api_key,
                                                           player_name |-> db_score.player_name,
                                                           score |-> db_score.score])
    /\ UNCHANGED <<games, now, ticks, issued>>

(* POST /scores.  The body is validated into score_data before the handler
   body runs. *)
submit_score(payload, api_key, db_fails) ==
    /\ Idle
    /\ Len(scores) < MaxScores
    /\ req' = [op |-> "submit_score", payload |-> payload, api_key |-> api_key, at |-> now]
    /\ LET score_data == ScoreCreate(payload)
           game == get_game_by_api_key(games, api_key)
       IN IF score_data = None
          THEN /\ resp' = ValidationError
               /\ UNCHANGED <<scores, accepted>>
          ELSE IF game = None
          THEN /\ resp' = Unauthorized
               /\ UNCHANGED <<scores, accepted>>
          ELSE IF db_fails
          THEN /\ resp' = InternalError
               /\ UNCHANGED <<scores, accepted>>
          ELSE LET db_score == [id |-> NextId(scores),
                                game_id |-> Val(game).id,
                                player_name |-> Val(score_data).player_name,
                                score |-> Val(score_data).score,
                                game_metadata |-> Val(score_data).game_metadata,
                                created_at |-> now]
               IN /\ scores' = Append(scores, db_score)
                  /\ resp' = Response(201, db_score)
                  /\ accepted' = Append(accepted, [api_key |-> api_key,
                                                   player_name |-> db_score.player_name,
                                                   score |-> db_score.score])
    /\ UNCHANGED <<games, now, ticks, issued>>

(* GET /leaderboard *)
get_leaderboard(limit, period, api_key) ==
    /\ Idle
    /\ req' = [op |-> "get_leaderboard", limit |-> limit, period |-> period,
               api_key |-> api_key, at |-> now]
    /\ LET game == get_game_by_api_key(games, api_key)
           date_filter == get_date_filter(period, now)
       IN IF ~LimitValid(limit)
          THEN resp' = ValidationError
          ELSE IF game = None
          THEN resp' = Unauthorized
          ELSE \E results \in LeaderboardResults(scores, Val(game).id, date_filter, limit) :
                  resp' = Response(200,
                            [game_id |-> Val(game).id,
                             game_name |-> Val(game).name,
                             entries |-> LeaderboardEntries(results),
                             total_entries |-> LeaderboardTotal(scores, Val(game).id, date_filter),
                             period |-> period])
    /\ UNCHANGED <<games, scores, now, ticks, issued, accepted>>

(* GET /players/{player_name}/stats *)
get_player_stats(player_name, api_key) ==
    /\ Idle
    /\ req' = [op |-> "get_player_stats", player_name |-> player_name,
               api_key |-> api_key, at |-> now]
    /\ LET game == get_game_by_api_key(games, api_key) IN
       IF game = None
       THEN resp' = Unauthorized
       ELSE IF PlayerScores(scores, Val(game).id, player_name) = <<>>
       THEN resp' = NotFound(player_name)
       ELSE resp' = Response(200, PlayerStats(scores, Val(game).id, player_name))
    /\ UNCHANGED <<games, scores, now, ticks, issued, accepted>>

(* The clock of the server (datetime.utcnow) moves on between requests. *)
Tick(d) ==
    /\ Idle
    /\ ticks < MaxTicks
    /\ now' = now + d
    /\ ticks' = ticks + 1
    /\ UNCHANGED <<games, scores, req, resp, issued, accepted>>

(* The response has gone out; the next request is taken. *)
Return ==
    /\ ~Idle
    /\ req' = NoRequest
    /\ resp' = NoResponse
    /\ UNCHANGED <<games, scores, now, ticks, issued, accepted>>

Next ==
    \/ \E name \in GameNameInputs, description \in DescriptionInputs,
          api_key \in Keys, db_fails \in BOOLEAN :
            create_game(name, description, api_key, db_fails)
    \/ \E api_key \in PresentedKeys : get_current_game(api_key)
    \/ \E payload \in ScorePayloads, api_key \in PresentedKeys, db_fails \in BOOLEAN :
            submit_score(payload, api_key, db_fails)
    \/ \E limit \in LimitInputs, period \in {None, Some("week")}, api_key \in PresentedKeys :
            get_leaderboard(limit, period, api_key)
    \/ \E player_name \in StatsNameInputs, api_key \in PresentedKeys :
            get_player_stats(player_name, api_key)
    \/ Return

Spec == Init /\ [][Next]_vars

(* One game whose clock moves: the requests that the windows of the
   leaderboard bear on. *)
NextClock ==
    \/ create_game(<<"g">>, None, "game_k1", FALSE)
    \/ \E payload \in PlainPayloads : submit_score(payload, "game_k1", FALSE)
    \/ \E limit \in {1, 100}, period \in PeriodInputs :
            get_leaderboard(limit, period, "game_k1")
    \/ \E d \in TickInputs : Tick(d)
    \/ Return

SpecClock == Init /\ [][NextClock]_vars

(* One game and clock steps as long as the windows: the requests that the
   start of each window bears on. *)
WindowTicks == {1, 7 * Day, 30 * Day, 365 * Day}
WindowPayloads == {Payload(<<"a">>, 1, None), Payload(<<"b">>, max_score_value, None)}
WindowPeriods == PeriodInputs \cup {Some("")}

NextWindow ==
    \/ create_game(<<"g">>, None, "game_k1", FALSE)
    \/ \E payload \in WindowPayloads : submit_score(payload, "game_k1", FALSE)
    \/ \E period \in WindowPeriods : get_leaderboard(100, period, "game_k1")
    \/ \E d \in WindowTicks : Tick(d)
    \/ Return

SpecWindow == Init /\ [][NextWindow]_vars

(* The reads of two games with the writes that set their stores up: the
   requests that the frame of a read bears on. *)
NextReads ==
    \/ \E api_key \in Keys : create_game(<<"g">>, None, api_key, FALSE)
    \/ \E payload \in PlainPayloads, api_key \in PresentedKeys :
            submit_score(payload, api_key, FALSE)
    \/ \E api_key \in PresentedKeys : get_current_game(api_key)
    \/ \E limit \in {1, 100}, api_key \in PresentedKeys : get_leaderboard(limit, None, api_key)
    \/ \E player_name \in StatsNameInputs, api_key \in PresentedKeys :
            get_player_stats(player_name, api_key)
    \/ Return

SpecReads == Init /\ [][NextReads]_vars

(* One game of three players and three scores: the requests that the two
   ranks of a player bear on. *)
RankPayloads ==
    {Payload(n, v, None) : n \in {<<"a">>, <<"b">>, <<"d">>}, v \in {1, 2, max_score_value}}
RankNames == {<<"a">>, <<"b">>, <<"d">>}

NextRanks ==
    \/ create_game(<<"g">>, None, "game_k1", FALSE)
    \/ \E payload \in RankPayloads : submit_score(payload, "game_k1", FALSE)
    \/ get_leaderboard(100, None, "game_k1")
    \/ \E player_name \in RankNames : get_player_stats(player_name, "game_k1")
    \/ Return

SpecRanks == Init /\ [][NextRanks]_vars

(* Requests in flight together.  The handlers are coroutines (async def)
   whose bodies hold no await: the event loop runs the body of one handler
   from its first statement to its return before it runs another.  A read
   is taken in three steps, its arrival and its two queries; pc is the
   query it is to make next, seen the number of score events stored when it
   arrived. *)
ConcurrentPayloads == PlainPayloads
ConcurrentLimits == {1, 100}
ConcurrentNames == {<<"a">>, <<"b">>}

(* a read has arrived and is at pc *)
InFlight == "pc" \in DOMAIN req

(* a handler body has made its first query and not yet its second *)
HandlerRunning == InFlight /\ req.pc \in {"total_query", "rank_query"}

(* handlers run as threads of a pool: another body may run at any moment *)
EventLoopFree_ThreadPool == TRUE

(* the event loop can start the body of another handler *)
EventLoopFree == ~HandlerRunning

(* a GET /leaderboard arrives and waits for the event loop *)
leaderboard_arrives(limit, api_key) ==
    /\ Idle
    /\ LimitValid(limit)
    /\ req' = [op |-> "get_leaderboard", limit |-> limit, period |-> None,
               api_key |-> api_key, at |-> now, pc |-> "entries_query", seen |-> Len(scores)]
    /\ resp' = NoResponse
    /\ UNCHANGED <<games, scores, now, ticks, issued, accepted>>

(* get_leaderboard up to results = query.all() and the entries built of it *)
leaderboard_entries_query ==
    /\ InFlight
    /\ req.op = "get_leaderboard"
    /\ req.pc = "entries_query"
    /\ LET game == get_game_by_api_key(games, req.api_key)
           date_filter == get_date_filter(req.period, now)
       IN IF game = None
          THEN /\ resp' = Unauthorized
               /\ req' = [req EXCEPT !.pc = "done"]
          ELSE \E results \in LeaderboardResults(scores, Val(game).id, date_filter, req.limit) :
                  /\ resp' = Response(0, [game_id |-> Val(game).id,
                                          game_name |-> Val(game).name,
                                          entries |-> LeaderboardEntries(results),
                                          period |-> req.period])
                  /\ req' = [req EXCEPT !.pc = "total_query"]
    /\ UNCHANGED <<games, scores, now, ticks, issued, accepted>>

(* get_leaderboard from total_query to its return *)
leaderboard_total_query ==
    /\ InFlight
    /\ req.op = "get_leaderboard"
    /\ req.pc = "total_query"
    /\ resp' = Response(200,
                 [game_id |-> resp.body.game_id,
                  game_name |-> resp.body.game_name,
                  entries |-> resp.body.entries,
                  total_entries |-> LeaderboardTotal(scores, resp.body.game_id,
                                                     get_date_filter(req.period, req.at)),
                  period |-> resp.body.period])
    /\ req' = [req EXCEPT !.pc = "done"]
    /\ UNCHANGED <<games, scores, now, ticks, issued, accepted>>

(* a GET /players/{player_name}/stats arrives and waits for the event loop *)
stats_arrives(player_name, api_key) ==
    /\ Idle
    /\ req' = [op |-> "get_player_stats", player_name |-> player_name,
               api_key |-> api_key, at |-> now, pc |-> "scores_query", seen |-> Len(scores)]
    /\ resp' = NoResponse
    /\ UNCHANGED <<games, scores, now, ticks, issued, accepted>>

(* get_player_stats up to best, worst and average of player_scores; the
   rank of the body is not yet counted *)
stats_scores_query ==
    /\ InFlight
    /\ req.op = "get_player_stats"
    /\ req.pc = "scores_query"
    /\ LET game == get_game_by_api_key(games, req.api_key) IN
       IF game = None
       THEN /\ resp' = Unauthorized
            /\ req' = [req EXCEPT !.pc = "done"]
       ELSE IF PlayerScores(scores, Val(game).id, req.player_name) = <<>>
       THEN /\ resp' = NotFound(req.player_name)
            /\ req' = [req EXCEPT !.pc = "done"]
       ELSE /\ resp' = Response(0, [PlayerStats(scores, Val(game).id, req.player_name)
                                       EXCEPT !.rank = 0])
            /\ req' = [req EXCEPT !.pc = "rank_query"]
    /\ UNCHANGED <<games, scores, now, ticks, issued, accepted>>

(* get_player_stats from rank_query to its return *)
stats_rank_query ==
    /\ InFlight
    /\ req.op = "get_player_stats"
    /\ req.pc = "rank_query"
    /\ resp' = Response(200,
                 [resp.body EXCEPT !.rank =
                     BetterPlayers(scores, resp.body.game_id, req.player_name,
                                   resp.body.best_score) + 1])
    /\ req' = [req EXCEPT !.pc = "done"]
    /\ UNCHANGED <<games, scores, now, ticks, issued, accepted>>

(* the whole handler of a POST /scores of another request, run while the
   read has arrived and has not returned *)
submit_score_meanwhile(payload, api_key) ==
    /\ InFlight
    /\ req.pc # "done"
    /\ EventLoopFree
    /\ Len(scores) < MaxScores
    /\ LET score_data == ScoreCreate(payload)
           game == get_game_by_api_key(games, api_key)
       IN IF score_data = None \/ game = None
          THEN UNCHANGED <<scores, accepted>>
          ELSE LET db_score == [id |-> NextId(scores),
                                game_id |-> Val(game).id,
                                player_name |-> Val(score_data).player_name,
                                score |-> Val(score_data).score,
                                game_metadata |-> Val(score_data).game_metadata,
                                created_at |-> now]
               IN /\ scores' = Append(scores, db_score)
                  /\ accepted' = Append(accepted, [api_key |-> api_key,
                                                   player_name |-> db_score.player_name,
                                                   score |-> db_score.score])
    /\ UNCHANGED <<games, now, ticks, req, resp, issued>>

NextConcurrent ==
    \/ create_game(<<"g">>, None, "game_k1", FALSE)
    \/ \E payload \in ConcurrentPayloads : submit_score(payload, "game_k1", FALSE)
    \/ \E limit \in ConcurrentLimits : leaderboard_arrives(limit, "game_k1")
    \/ leaderboard_entries_query
    \/ leaderboard_total_query
    \/ \E player_name \in ConcurrentNames : stats_arrives(player_name, "game_k1")
    \/ stats_scores_query
    \/ stats_rank_query
    \/ \E payload \in ConcurrentPayloads : submit_score_meanwhile(payload, "game_k1")
    \/ Return

SpecConcurrent == Init /\ [][NextConcurrent]_vars

-----------------------------------------------------------------------------
(* What the claims are stated over *)

IssuedKeys == {ki[1] : ki \in issued}

(* the id that the registration answering with api_key returned *)
TenantOf(api_key) == (CHOOSE ki \in issued : ki[1] = api_key)[2]

Abs(x) == IF x < 0 THEN -x ELSE x

(* the scores of the accepted submissions made with api_key for player_name,
   as the 201 responses reported them *)
AcceptedScores(api_key, player_name) ==
    LET hits == SelectSeq(accepted,
                    LAMBDA a : a.api_key = api_key /\ a.player_name = player_name)
    IN [i \in 1..Len(hits) |-> hits[i].score]

(* the exact mean of vals as [q, r]: mean = q + r / Len(vals), 0 <= r < Len(vals) *)
RECURSIVE ExactMeanFrom(_, _, _)
ExactMeanFrom(vals, n, acc) ==
    IF vals = <<>> THEN acc
    ELSE LET r == acc.r + (Head(vals) % n) IN
         ExactMeanFrom(Tail(vals), n,
                       [q |-> acc.q + (Head(vals) \div n) + (r \div n), r |-> r % n])

ExactMean(vals) == ExactMeanFrom(vals, Len(vals), [q |-> 0, r |-> 0])

(* avg, in units and hundredths, is within half a hundredth of the mean of vals *)
IsMeanRoundedTo2(avg, vals) ==
    LET m == ExactMean(vals)
        n == Len(vals)
    IN /\ avg.hundredths \in 0..99
       /\ Abs(avg.units - m.q) <= 1
       /\ 2 * Abs(((avg.units - m.q) * 100 + avg.hundredths) * n - 100 * m.r) <= n

StatsAnswered == req.op = "get_player_stats" /\ req.api_key \in IssuedKeys

(* C1: a stats request for player P with the key of tenant T, after N >= 1
   accepted submissions for (T, P), is answered with total_scores = N,
   best_score and worst_score the greatest and the least of the N scores and
   average_score their mean rounded to two decimal places, whatever was
   submitted for other players and tenants. *)
C1_StatsOfAcceptedScores ==
    StatsAnswered =>
        LET vals == AcceptedScores(req.api_key, req.player_name) IN
        Len(vals) >= 1 =>
            /\ resp.status = 200
            /\ resp.body.total_scores = Len(vals)
            /\ resp.body.best_score = SetMax(Range(vals))
            /\ resp.body.worst_score = SetMin(Range(vals))
            /\ IsMeanRoundedTo2(resp.body.average_score, vals)

(* three scores of one player whose mean, 333333333.666..., is rounded up *)
C1_Witness ==
    /\ StatsAnswered
    /\ resp.status = 200
    /\ resp.body.total_scores = 3
    /\ resp.body.best_score = max_score_value
    /\ resp.body.worst_score = 1
    /\ resp.body.average_score = [units |-> 333333333, hundredths |-> 67]

(* the rows of tenant game_id for player_name *)
EventsOf(game_id, player_name) ==
    {i \in 1..Len(scores) :
        scores[i].game_id = game_id /\ scores[i].player_name = player_name}

(* C8: a stats request with the key of tenant T is answered NotFound (404)
   when the player has no score event in T, whatever events the same name
   has in another tenant, and is not answered NotFound when the player has
   an event in T. *)
C8_NotFoundIffNoEvent ==
    StatsAnswered =>
        (resp.status = 404 <=> EventsOf(TenantOf(req.api_key), req.player_name) = {})

(* NotFound for a name that has an event in the other tenant *)
C8_Witness ==
    /\ StatsAnswered
    /\ resp.status = 404
    /\ \E i \in 1..Len(scores) :
          /\ scores[i].player_name = req.player_name
          /\ scores[i].game_id # TenantOf(req.api_key)

(* the players of tenant game_id, other than player_name, with an event that
   scores above every event of player_name in game_id *)
PlayersAbove(game_id, player_name) ==
    {scores[j].player_name : j \in {k \in 1..Len(scores) :
        /\ scores[k].game_id = game_id
        /\ scores[k].player_name # player_name
        /\ \A i \in EventsOf(game_id, player_name) : scores[k].score > scores[i].score}}

(* C9: the rank of a stats response for player P of tenant T is 1 plus the
   number of distinct players of T, other than P, with an event that scores
   strictly above P's best score. *)
C9_RankCountsPlayersAbove ==
    (StatsAnswered /\ resp.status = 200) =>
        resp.body.rank =
            1 + Cardinality(PlayersAbove(TenantOf(req.api_key), req.player_name))

(* rank 2 where the one player above has two events above *)
C9_Witness ==
    /\ StatsAnswered
    /\ resp.status = 200
    /\ resp.body.rank = 2
    /\ \E i, j \in 1..Len(scores) :
          /\ i # j
          /\ scores[i].player_name # req.player_name
          /\ scores[j].player_name = scores[i].player_name
          /\ scores[i].game_id = resp.body.game_id
          /\ scores[j].game_id = resp.body.game_id
          /\ scores[i].score > resp.body.best_score
          /\ scores[j].score > resp.body.best_score

(* C4: the key that a registration returned resolves, in every later state,
   to the game that the registration created, and a key that no
   registration returned resolves to no game. *)
C4_IssuedKeyResolvesToItsGame ==
    /\ \A ki \in issued :
          /\ get_game_by_api_key(games, ki[1]) # None
          /\ Val(get_game_by_api_key(games, ki[1])).id = ki[2]
    /\ \A k \in PresentedKeys \ IssuedKeys : get_game_by_api_key(games, k) = None

(* both keys issued, scores submitted, and a request just resolved a key *)
C4_Witness ==
    /\ Cardinality(issued) = 2
    /\ Len(scores) >= 2
    /\ req.op = "get_current_game"
    /\ resp.status = 200
    /\ resp.body.id = 2

(* the rows of tenant game_id alone *)
OwnScores(game_id) == SelectSeq(scores, LAMBDA s : s.game_id = game_id)

(* C5: a score event is recorded under the tenant of the key presented, and
   a leaderboard or stats response for the key of tenant T is the response
   that T's own events alone give: the events of other tenants, the same
   player names included, change nothing in it. *)
C5_TenantIsolation ==
    /\ (req.op = "submit_score" /\ resp.status = 201) =>
          /\ req.api_key \in IssuedKeys
          /\ resp.body.game_id = TenantOf(req.api_key)
          /\ scores[Len(scores)] = resp.body
    /\ (req.op = "get_leaderboard" /\ resp.status = 200) =>
          /\ req.api_key \in IssuedKeys
          /\ LET T == TenantOf(req.api_key)
                 date_filter == get_date_filter(req.period, req.at)
             IN /\ resp.body.game_id = T
                /\ resp.body.total_entries = LeaderboardTotal(OwnScores(T), T, date_filter)
                /\ \E results \in LeaderboardResults(OwnScores(T), T, date_filter, req.limit) :
                      resp.body.entries = LeaderboardEntries(results)
    /\ StatsAnswered =>
          LET T == TenantOf(req.api_key) IN
          IF \A i \in 1..Len(OwnScores(T)) : OwnScores(T)[i].player_name # req.player_name
          THEN resp.status = 404
          ELSE resp = Response(200, PlayerStats(OwnScores(T), T, req.player_name))

(* rank 1 for a player of T while the other tenant holds a higher score of
   another player and an event under the same player name *)
C5_Witness ==
    /\ StatsAnswered
    /\ resp.status = 200
    /\ resp.body.rank = 1
    /\ \E i, j \in 1..Len(scores) :
          /\ scores[i].game_id # resp.body.game_id
          /\ scores[i].player_name # req.player_name
          /\ scores[i].score > resp.body.best_score
          /\ scores[j].game_id # resp.body.game_id
          /\ scores[j].player_name = req.player_name

KeyedOps == {"get_current_game", "submit_score", "get_leaderboard", "get_player_stats"}

(* C6: a game-info, submission, leaderboard or stats request that presents
   a key resolving to no tenant ends with Unauthorized (401) and leaves the
   games and the score events as they were. *)
C6_UnresolvedKeyIsUnauthorized ==
    [][(req'.op \in KeyedOps /\ req'.api_key \notin IssuedKeys)
          => (resp'.status = 401 /\ games' = games /\ scores' = scores)]_vars

(* the input constraints of a submission, as the claim words them *)
AllowedNameChar(c) ==
    c \in {"a", "b", "d", "g", "k", "t", "7", "_", " ", "\n", "-", ".", "@"}
AllowedKeyChar(c) == c \in {"a", "b", "d", "g", "k", "t", "7", "_", "-"}

ViolatesInputConstraint(p) ==
    \/ \A i \in 1..Len(p.player_name) : p.player_name[i] \in {" ", "\n"}
    \/ Len(p.player_name) > 50
    \/ \E i \in 1..Len(p.player_name) : ~AllowedNameChar(p.player_name[i])
    \/ p.score < 0
    \/ p.score > 999999999
    \/ /\ p.game_metadata # None
       /\ \/ JsonDumpsLen(Val(p.game_metadata)) > 10240
          \/ \E e \in Val(p.game_metadata) : \E i \in 1..Len(e.key) : ~AllowedKeyChar(e.key[i])

(* C7: a submission that violates an input constraint is rejected with a
   validation error and the stored score events are the same after it. *)
C7_InvalidSubmissionRejected ==
    [][(req'.op = "submit_score" /\ ViolatesInputConstraint(req'.payload))
          => (resp'.status = 422 /\ scores' = scores)]_vars

IsPrefix(s, t) == Len(s) <= Len(t) /\ \A i \in 1..Len(s) : t[i] = s[i]

StoreWellFormed ==
    /\ \A i, j \in 1..Len(games) :
          i < j => /\ games[i].id < games[j].id
                   /\ games[i].api_key_hash # games[j].api_key_hash
    /\ \A i, j \in 1..Len(scores) : i < j => scores[i].id < scores[j].id

(* C10: every step keeps every game and every score event that exists, with
   all of its fields, and leaves a store in which no two games share a
   credential hash and the ids of each table increase strictly in the order
   of creation. *)
C10_StoreOnlyGrows ==
    [][IsPrefix(games, games') /\ IsPrefix(scores, scores') /\ StoreWellFormed']_vars

(* two games and three score events, one of them with metadata, the last
   one just stored *)
C10_Witness ==
    /\ Len(games) = 2
    /\ Len(scores) = 3
    /\ \E i \in 1..Len(scores) : scores[i].game_metadata # None
    /\ req.op = "submit_score"
    /\ resp.status = 201

LeaderboardAnswered == req.op = "get_leaderboard" /\ resp.status = 200

(* the start of the window that a period names at time t, None for no window *)
WindowStart(period, t) ==
    CASE period = Some("today") -> Some(t - (t % Day))
      [] period = Some("week") -> Some(t - 7 * Day)
      [] period = Some("month") -> Some(t - 30 * Day)
      [] period = Some("year") -> Some(t - 365 * Day)
      [] OTHER -> None

(* the rows of tenant game_id inside the window of the request *)
InWindow(game_id) ==
    {i \in 1..Len(scores) :
        /\ scores[i].game_id = game_id
        /\ \A start \in WindowStart(req.period, req.at) : scores[i].created_at >= start}

(* C2: in a leaderboard response, whatever the limit and the window, the
   entry of rank k scores at least as much as the entry of rank k + 1. *)
C2_EntriesSortedByScore ==
    LeaderboardAnswered =>
        \A e1, e2 \in Range(resp.body.entries) :
            e2.rank = e1.rank + 1 => e1.score >= e2.score

(* two entries of different scores under a window that leaves out an event
   scoring above both *)
C2_Witness ==
    /\ LeaderboardAnswered
    /\ req.period = Some("week")
    /\ Len(resp.body.entries) = 2
    /\ resp.body.entries[1].score > resp.body.entries[2].score
    /\ \E i \in 1..Len(scores) :
          /\ i \notin InWindow(resp.body.game_id)
          /\ scores[i].player_name = resp.body.entries[2].player_name
          /\ scores[i].score > resp.body.entries[2].score

(* C3: total_entries of a leaderboard response is the number of distinct
   player names with an event of the requesting tenant inside the window,
   whatever the limit; it may exceed the number of entries returned. *)
C3_TotalEntriesCountsPlayersInWindow ==
    LeaderboardAnswered =>
        resp.body.total_entries =
            Cardinality({scores[i].player_name : i \in InWindow(TenantOf(req.api_key))})

(* one entry returned of two players in the window, a third event being
   outside the window *)
C3_Witness ==
    /\ LeaderboardAnswered
    /\ req.limit = 1
    /\ Len(resp.body.entries) = 1
    /\ resp.body.total_entries = 2
    /\ \E i \in 1..Len(scores) : i \notin InWindow(resp.body.game_id)

(* the raw keys and the hashes that the store holds or may come to hold *)
StoredHashes == {games[i].api_key_hash : i \in 1..Len(games)}
KeyMaterial == PresentedKeys \cup {hash_api_key(k) : k \in PresentedKeys}

(* the response is the 201 of a registration *)
Registered == req.op = "create_game" /\ resp.status = 201

(* C11: a raw key is in one response only, the 201 response of the
   registration that issued it; the rows of the games table hold the hash
   of the key and never the key; and the responses of the game-info,
   submission, leaderboard and stats requests carry neither a key nor a
   stored hash. *)
C11_KeyOnlyInItsRegistration ==
    /\ ("api_key" \in DOMAIN resp.body) =>
          /\ Registered
          /\ <<resp.body.api_key, resp.body.id>> \in issued
          /\ \A ki \in issued : ki[1] = resp.body.api_key => ki[2] = resp.body.id
    /\ \A i \in 1..Len(games) :
          /\ "api_key" \notin DOMAIN games[i]
          /\ games[i].api_key_hash \notin PresentedKeys
          /\ \E ki \in issued : ki[2] = games[i].id /\ games[i].api_key_hash = hash_api_key(ki[1])
    /\ (req.op \in KeyedOps) =>
          /\ DOMAIN resp.body \cap {"api_key", "api_key_hash"} = {}
          /\ resp.status \in {401, 422, 500} => resp.body.detail \notin KeyMaterial
          /\ (req.op = "get_leaderboard" /\ resp.status = 200) =>
                \A e \in Range(resp.body.entries) :
                    DOMAIN e \cap {"api_key", "api_key_hash"} = {}

(* the second registration answers with its key while the first key and
   both hashes are in the store *)
C11_Witness ==
    /\ Registered
    /\ resp.body.api_key = "game_k2"
    /\ Len(games) = 2
    /\ StoredHashes = {hash_api_key("game_k1"), hash_api_key("game_k2")}
    /\ Len(scores) >= 1

(* C12: a response of status 500 has the one fixed body of the handler of
   uncaught exceptions, whatever the operation, registration included, and
   whatever the failure. *)
C12_InternalErrorIsGeneric ==
    resp.status = 500 => resp = InternalError

(* C13: a submission whose write fails is answered with the internal error
   and leaves the score events as they were, so that no later read sees
   anything of it; a submission answered 201 adds the one event of its
   response; and the score events change in no other step: a failed write
   is not made again. *)
C13_SubmissionAllOrNothing ==
    [][/\ (req'.op = "submit_score" /\ resp'.status = 500) =>
             (resp' = InternalError /\ scores' = scores)
       /\ (req'.op = "submit_score" /\ resp'.status = 201) =>
             scores' = Append(scores, resp'.body)
       /\ scores' # scores => (req'.op = "submit_score" /\ resp'.status = 201)
       /\ Len(scores') = Len(accepted')]_vars

(* a failed write while two events are stored, the failing payload being a
   valid one for a player and score not stored before *)
C13_Witness ==
    /\ req.op = "submit_score"
    /\ resp = InternalError
    /\ Len(scores) = 2
    /\ \A i \in 1..Len(scores) : scores[i].score # req.payload.score

(* the rows of player_name among the rows of tenant game_id inside the
   window of the request *)
InWindowOf(game_id, player_name) ==
    {i \in InWindow(game_id) : scores[i].player_name = player_name}

(* C14: a leaderboard response has no player name twice, and the score of
   each entry is the greatest score, its created_at the latest timestamp,
   over the events of that player and tenant inside the window; events
   before the start of the window count for neither. *)
C14_EntryIsBestAndLatestInWindow ==
    LeaderboardAnswered =>
        LET T == TenantOf(req.api_key)
            entries == resp.body.entries
        IN /\ \A i, j \in 1..Len(entries) :
                 i # j => entries[i].player_name # entries[j].player_name
           /\ \A i \in 1..Len(entries) :
                 LET mine == InWindowOf(T, entries[i].player_name) IN
                 /\ mine # {}
                 /\ entries[i].score = SetMax({scores[k].score : k \in mine})
                 /\ entries[i].created_at = SetMax({scores[k].created_at : k \in mine})

(* an entry dated later than the event that scored its best, under a window
   that leaves out an earlier event *)
C14_Witness ==
    /\ LeaderboardAnswered
    /\ req.period = Some("week")
    /\ Len(resp.body.entries) = 1
    /\ \E i \in InWindow(resp.body.game_id) :
          /\ scores[i].player_name = resp.body.entries[1].player_name
          /\ scores[i].score = resp.body.entries[1].score
          /\ scores[i].created_at < resp.body.entries[1].created_at
    /\ \A i \in InWindow(resp.body.game_id) :
          scores[i].score = resp.body.entries[1].score =>
              scores[i].created_at < resp.body.entries[1].created_at
    /\ \E i \in 1..Len(scores) : i \notin InWindow(resp.body.game_id)

(* the player names, and the best score of a name, over the rows of tenant
   game_id inside the window of the request *)
PlayersInWindow(game_id) == {scores[i].player_name : i \in InWindow(game_id)}
BestInWindow(game_id, player_name) ==
    SetMax({scores[i].score : i \in InWindowOf(game_id, player_name)})

(* C15: a leaderboard response for limit L over N players in scope has
   min(L, N) entries, ranked 1, 2, ... in order with no gap and no repeat,
   equal scores included, and no player left out has a best score above
   the score of an entry returned. *)
C15_RanksAndTruncation ==
    LeaderboardAnswered =>
        LET T == TenantOf(req.api_key)
            entries == resp.body.entries
            N == Cardinality(PlayersInWindow(T))
            returned == {entries[i].player_name : i \in 1..Len(entries)}
        IN /\ Len(entries) = (IF req.limit < N THEN req.limit ELSE N)
           /\ \A i \in 1..Len(entries) : entries[i].rank = i
           /\ \A p \in PlayersInWindow(T) \ returned :
                 \A i \in 1..Len(entries) : BestInWindow(T, p) <= entries[i].score

(* two players of equal best score, ranked 1 and 2 *)
C15_Witness ==
    /\ LeaderboardAnswered
    /\ req.limit = 100
    /\ Len(resp.body.entries) = 2
    /\ resp.body.entries[1].score = resp.body.entries[2].score
    /\ resp.body.entries[1].rank = 1
    /\ resp.body.entries[2].rank = 2

(* one entry returned of two players, the player left out scoring less *)
C15_WitnessTruncated ==
    /\ LeaderboardAnswered
    /\ req.limit = 1
    /\ Len(resp.body.entries) = 1
    /\ \E p \in PlayersInWindow(resp.body.game_id) :
          BestInWindow(resp.body.game_id, p) < resp.body.entries[1].score

(* C16: a leaderboard response is computed, entries and total alike, from
   the events stamped at or after one window start taken from the time of
   the request: the UTC midnight of that time for "today", that time less
   7, 30 and 365 days for "week", "month" and "year", and every event for
   an absent or unknown period; an event stamped at the window start is
   inside. *)
C16_OneWindowStartForEntriesAndTotal ==
    (LeaderboardAnswered /\ req.limit = 100) =>
        LET T == TenantOf(req.api_key)
            start == WindowStart(req.period, req.at)
            inscope == {i \in 1..Len(scores) :
                          /\ scores[i].game_id = T
                          /\ \A s \in start : scores[i].created_at >= s}
            players == {scores[i].player_name : i \in inscope}
        IN /\ {resp.body.entries[i].player_name : i \in 1..Len(resp.body.entries)} = players
           /\ resp.body.total_entries = Cardinality(players)
           /\ req.period \notin {Some("today"), Some("week"), Some("month"), Some("year")}
                 => inscope = {i \in 1..Len(scores) : scores[i].game_id = T}

(* a month window holding an event stamped exactly at its start, while an
   event stamped one step earlier is outside *)
C16_Witness ==
    /\ LeaderboardAnswered
    /\ req.period = Some("month")
    /\ req.at = 30 * Day + 1
    /\ resp.body.total_entries = 1
    /\ \E i, j \in 1..Len(scores) :
          /\ scores[i].created_at = req.at - 30 * Day
          /\ scores[i].player_name = resp.body.entries[1].player_name
          /\ scores[j].created_at = req.at - 30 * Day - 1
          /\ scores[j].player_name # scores[i].player_name

(* C17: a submission that presents a key resolving to no tenant together
   with a payload that violates an input constraint is answered
   Unauthorized (401), not with a validation error. *)
C17_CredentialBeforeValidation ==
    (/\ req.op = "submit_score"
     /\ req.api_key \notin IssuedKeys
     /\ ViolatesInputConstraint(req.payload)) => resp.status = 401

(* the player-name constraints, as the claim words them *)
ViolatesPlayerNameConstraint(player_name) ==
    \/ \A i \in 1..Len(player_name) : player_name[i] \in {" ", "\n"}
    \/ Len(player_name) > 50
    \/ \E i \in 1..Len(player_name) : ~AllowedNameChar(player_name[i])

(* C18: a stats request with the key of a tenant and a player name that
   violates the player-name constraints is answered with a validation
   error (422), not looked up and answered NotFound. *)
C18_StatsNameValidated ==
    (StatsAnswered /\ ViolatesPlayerNameConstraint(req.player_name)) => resp.status = 422

ReadOps == {"get_current_game", "get_leaderboard", "get_player_stats"}

(* the entries that the leaderboard request just answered may get from the
   games and score events as they are now, at the same clock value *)
LeaderboardRepeats ==
    {LeaderboardEntries(results) :
        results \in LeaderboardResults(scores, resp.body.game_id,
                                       get_date_filter(req.period, req.at), req.limit)}

(* a read, or a request refused for its key, leaves the games and the score
   events as they were *)
ReadLeavesStore ==
    (req'.op \in ReadOps \/ resp'.status = 401) => (games' = games /\ scores' = scores)

(* whatever in the answer of a read does not rest on the order of equal
   scores is what the same read gets again from the present state *)
RepeatOfReadAgrees ==
    /\ (req.op \in ReadOps /\ resp.status = 401) =>
          get_game_by_api_key(games, req.api_key) = None
    /\ (req.op = "get_current_game" /\ resp.status = 200) =>
          LET game == get_game_by_api_key(games, req.api_key) IN
          /\ game # None
          /\ resp.body = [id |-> Val(game).id, name |-> Val(game).name,
                          description |-> Val(game).description,
                          created_at |-> Val(game).created_at]
    /\ (req.op = "get_player_stats" /\ resp.status \in {200, 404}) =>
          LET game == get_game_by_api_key(games, req.api_key) IN
          /\ game # None
          /\ IF PlayerScores(scores, Val(game).id, req.player_name) = <<>>
             THEN resp = NotFound(req.player_name)
             ELSE resp = Response(200, PlayerStats(scores, Val(game).id, req.player_name))
    /\ LeaderboardAnswered =>
          LET game == get_game_by_api_key(games, req.api_key) IN
          /\ game # None
          /\ resp.body.game_id = Val(game).id
          /\ resp.body.game_name = Val(game).name
          /\ resp.body.total_entries =
                LeaderboardTotal(scores, Val(game).id, get_date_filter(req.period, req.at))

(* the same leaderboard request made again gets the same entries *)
LeaderboardRepeatIsSame ==
    LeaderboardAnswered =>
        \A entries \in LeaderboardRepeats : entries = resp.body.entries

(* the same leaderboard request made again gets the same number of entries,
   the same score at every rank, and the same entry at every rank whose
   score no other player in scope equals *)
LeaderboardRepeatIsSameUpToTies ==
    LeaderboardAnswered =>
        \A entries \in LeaderboardRepeats :
           /\ Len(entries) = Len(resp.body.entries)
           /\ \A k \in 1..Len(entries) :
                 /\ entries[k].score = resp.body.entries[k].score
                 /\ (\A p \in PlayersInWindow(resp.body.game_id) :
                        p # entries[k].player_name =>
                           BestInWindow(resp.body.game_id, p) # entries[k].score)
                       => entries[k] = resp.body.entries[k]

(* C19 as stated: game-info, leaderboard and stats requests, and the
   resolution of a key that ends in Unauthorized, leave the games, their
   credential hashes and the score events as they were, and the same read
   made again on that state at the same clock value gets the same response. *)
C19_ReadsChangeNothingAndRepeat ==
    [][ReadLeavesStore /\ RepeatOfReadAgrees' /\ LeaderboardRepeatIsSame']_vars

(* C19, amended: as above, except that among players of equal best score
   the order of a leaderboard, and at the limit the player returned, may
   differ when the same request is made again; the number of entries, the
   score at every rank and every entry whose score no other player in scope
   equals are the same. *)
C19_ReadsChangeNothingAndRepeatUpToTies ==
    [][ReadLeavesStore /\ RepeatOfReadAgrees' /\ LeaderboardRepeatIsSameUpToTies']_vars

(* a leaderboard of two entries of different scores answered from a store
   of two games, the other game holding an event as well *)
C19_Witness ==
    /\ LeaderboardAnswered
    /\ Len(games) = 2
    /\ Len(resp.body.entries) = 2
    /\ resp.body.entries[1].score > resp.body.entries[2].score
    /\ \E i \in 1..Len(scores) : scores[i].game_id # resp.body.game_id

(* the ledger states that existed while the request was in flight: the
   score events in the order stored are a growing list, and the states are
   its prefixes from the one the request met on arrival *)
LedgerDuringRequest == {SubSeq(scores, 1, n) : n \in req.seen..Len(scores)}

ReadReturned == InFlight /\ req.pc = "done" /\ resp.status = 200

(* C20: with submissions of other requests in flight together with a read,
   a leaderboard response has total_entries >= the number of its entries,
   and = that number when the entries are fewer than the limit, and a
   leaderboard or stats response is the one computed on one single state of
   the score events that existed while the request was in flight. *)
C20_ReadsAnswerFromOneState ==
    /\ (ReadReturned /\ req.op = "get_leaderboard") =>
          /\ resp.body.total_entries >= Len(resp.body.entries)
          /\ Len(resp.body.entries) < req.limit =>
                resp.body.total_entries = Len(resp.body.entries)
          /\ \E ss \in LedgerDuringRequest :
                /\ resp.body.total_entries = LeaderboardTotal(ss, resp.body.game_id, None)
                /\ \E results \in LeaderboardResults(ss, resp.body.game_id, None, req.limit) :
                      resp.body.entries = LeaderboardEntries(results)
    /\ (ReadReturned /\ req.op = "get_player_stats") =>
          \E ss \in LedgerDuringRequest :
              /\ PlayerScores(ss, resp.body.game_id, req.player_name) # <<>>
              /\ resp.body = PlayerStats(ss, resp.body.game_id, req.player_name)

(* a stats response of rank 2 for a request that arrived before the
   higher score of the other player was submitted *)
C20_Witness ==
    /\ ReadReturned
    /\ req.op = "get_player_stats"
    /\ resp.body.rank = 2
    /\ req.seen < Len(scores)
    /\ \A i \in 1..req.seen : scores[i].score <= resp.body.best_score

(* the players of tenant game_id, and the best score of one of them, over
   all of its score events *)
PlayersOf(game_id) ==
    {scores[i].player_name : i \in {j \in 1..Len(scores) : scores[j].game_id = game_id}}
BestOf(game_id, player_name) ==
    SetMax({scores[i].score : i \in EventsOf(game_id, player_name)})

(* the rank of player_name in a list of leaderboard entries that names it *)
RankIn(entries, player_name) ==
    (CHOOSE e \in Range(entries) : e.player_name = player_name).rank

(* the all-time leaderboards of tenant game_id that the store may return
   for the greatest limit *)
AllTimeLeaderboards(game_id) ==
    {LeaderboardEntries(results) : results \in LeaderboardResults(scores, game_id, None, 100)}

(* C21: in every state of the store, for every tenant T and every player P
   with an event in T, the rank of P's stats is at most P's rank in every
   all-time leaderboard of T that covers all players, equals it when no
   other player of T has P's best score, and is 1 when the leaderboard
   ranks P first; and a stats or leaderboard response that is held agrees
   with the store in this. *)
C21_StatsRankAtMostLeaderboardRank ==
    /\ \A g \in 1..Len(games) :
          LET T == games[g].id IN
          \A entries \in AllTimeLeaderboards(T) :
             /\ {entries[k].player_name : k \in 1..Len(entries)} = PlayersOf(T)
             /\ \A P \in PlayersOf(T) :
                   LET stats_rank == PlayerStats(scores, T, P).rank
                       board_rank == RankIn(entries, P)
                   IN /\ stats_rank <= board_rank
                      /\ (\A Q \in PlayersOf(T) \ {P} : BestOf(T, Q) # BestOf(T, P))
                            => stats_rank = board_rank
                      /\ board_rank = 1 => stats_rank = 1
    /\ (StatsAnswered /\ resp.status = 200) =>
          \A entries \in AllTimeLeaderboards(resp.body.game_id) :
              resp.body.rank <= RankIn(entries, req.player_name)
    /\ (LeaderboardAnswered /\ req.period = None /\ req.limit = 100) =>
          \A k \in 1..Len(resp.body.entries) :
              PlayerStats(scores, resp.body.game_id, resp.body.entries[k].player_name).rank <= k

(* a stats response of rank 1 for a player whom a second player equals in
   best score, so that a leaderboard may rank it second, a third player
   scoring less *)
C21_Witness ==
    /\ StatsAnswered
    /\ resp.status = 200
    /\ resp.body.rank = 1
    /\ \E entries \in AllTimeLeaderboards(resp.body.game_id) :
          /\ Len(entries) = 3
          /\ RankIn(entries, req.player_name) = 2
          /\ entries[3].score < resp.body.best_score

(* three players of three different best scores, the stats of the last
   having rank 3 as the leaderboard has *)
C21_WitnessNoTie ==
    /\ StatsAnswered
    /\ resp.status = 200
    /\ resp.body.rank = 3
    /\ \A entries \in AllTimeLeaderboards(resp.body.game_id) :
          RankIn(entries, req.player_name) = 3

====
